---- MODULE Spec2Model ----
(***************************************************************************)
(* Model of the SSH gateway of voicememo-ssh-server: the session registry  *)
(* (class SSHManager) and the per-connection bridge that wss.on            *)
(* ('connection') installs.  Two bridges exist in the repository: the one  *)
(* at src/src/ssh-manager.ts:312-511 ("current") and the one at            *)
(* src/src/index.ts:28-180 ("legacy"); `build` says which one serves the   *)
(* connection.  One client connection is modelled.  Every action is one    *)
(* run-to-completion turn of the Node.js event loop: the synchronous part  *)
(* of a handler up to its next await on the provider, or one event         *)
(* callback.                                                               *)
(***************************************************************************)
EXTENDS Integers, Sequences, FiniteSets, TLC

\* Number of connect messages (with a config) the client sends.
MaxConnects == 2

Attempts == 1..MaxConnects      \* connect handlers; attempt a allocates Session object a and channel a
Ids      == 1..MaxConnects      \* values generateSessionId can return
NullId   == 0                   \* sessionId = null / no object
NullCode == -1                  \* exit code null
ExitCodes == {NullCode, 0, 1}   \* code argument of the channel's close event
Builds   == {"current", "legacy"}
\* Diagnostic messages the provider rejects connect / requestShell with.
ProviderMsgs == {"bad credentials", "timed out"}

VARIABLES
  build,        \* which bridge serves the connection
  wsState,      \* ws.readyState: "open", "errored" (error emitted, not OPEN), "closed"
  sessionId,    \* the closure variable `let sessionId` of the connection
  sessions,     \* SSHManager.sessions: id -> Session object (0 = absent)
  nAttempts,    \* connect handlers started so far
  pc,           \* position of connect handler a
  sidOf,        \* createSession's parameter sessionId of handler a
  tgt,          \* Session object whose connection handler a's requestShell runs on
  sShell,       \* Session.shell of object o (0 = unset)
  sConnected,   \* Session.isConnected of object o, for as long as the registry holds o
  released,     \* closeSession's release work on object o: "no", then who asked for it
  chState,      \* channel ch: "none", "open", "closed" (close event delivered)
  ended,        \* number of shell.end() calls on channel ch
  last          \* the turn just taken: what it was and what it emitted

vars == <<build, wsState, sessionId, sessions, nAttempts, pc, sidOf, tgt,
          sShell, sConnected, released, chState, ended, last>>

Cap(n) == IF n >= 2 THEN 2 ELSE n + 1

\* sendResponse: the frame is written only when ws.readyState === OPEN.
sendResponse(r) == IF wsState = "open" THEN <<r>> ELSE <<>>

\* generateSessionId for the a-th connect: random text plus the clock; nothing
\* keeps it from repeating a value it returned before.
generateSessionId(a) == {a} \cup {sidOf[b] : b \in 1..(a - 1)}

InFlight == {a \in Attempts : pc[a] \in {"awaitConnect", "awaitShell"}}

\* getSession
getSession(id) == IF id = NullId THEN 0 ELSE sessions[id]

InRegistry(o) == \E id \in Ids : sessions[id] = o

NoClose == [sessions |-> sessions, sConnected |-> sConnected, ended |-> ended,
            released |-> released, removed |-> 0, rel |-> "none"]

\* The release work of closeSession on Session object o, asked for by `who`:
\* shell.end(), then connection.dispose(), then isConnected = false, a throw
\* skipping the rest of the try block.  rel says how far it got: "full",
\* "endThrew" (dispose never called, isConnected left true) or "disposeThrew"
\* (isConnected left true).  The Session object is unreachable once its entry
\* is deleted, so its isConnected is not kept after that.
Release(o, who, endThrows, disposeThrows) ==
  LET sh == sShell[o] IN
  [sConnected |-> [sConnected EXCEPT ![o] = FALSE],
   ended      |-> IF sh # 0 THEN [ended EXCEPT ![sh] = Cap(@)] ELSE ended,
   released   |-> [released EXCEPT ![o] = IF @ = "no" THEN who ELSE "again"],
   rel        |-> IF sh # 0 /\ endThrows THEN "endThrew"
                  ELSE IF disposeThrows THEN "disposeThrew" ELSE "full"]

\* closeSession with the finally-delete left out.
closeSessionKeepsEntry(id, who, endThrows, disposeThrows) ==
  LET o == getSession(id) IN
  IF o = 0 THEN NoClose
  ELSE LET r == Release(o, who, endThrows, disposeThrows) IN
       [sessions |-> sessions, sConnected |-> sConnected, ended |-> r.ended,
        released |-> r.released, removed |-> o, rel |-> r.rel]

\* closeSession with delete as the last statement of the try block instead
\* of a finally: a throwing end() or dispose() skips it.
closeSessionNoFinally(id, who, endThrows, disposeThrows) ==
  LET o == getSession(id) IN
  IF o = 0 THEN NoClose
  ELSE LET r == Release(o, who, endThrows, disposeThrows) IN
       IF r.rel = "full"
       THEN [sessions |-> [sessions EXCEPT ![id] = 0], sConnected |-> r.sConnected,
             ended |-> r.ended, released |-> r.released, removed |-> o, rel |-> r.rel]
       ELSE [sessions |-> sessions, sConnected |-> sConnected, ended |-> r.ended,
             released |-> r.released, removed |-> o, rel |-> r.rel]

\* SSHManager.closeSession(id): absent -> return; else the release work;
\* finally sessions.delete(id).
closeSession(id, who, endThrows, disposeThrows) ==
  LET o == getSession(id) IN
  IF o = 0 THEN NoClose
  ELSE LET r == Release(o, who, endThrows, disposeThrows) IN
       [sessions |-> [sessions EXCEPT ![id] = 0], sConnected |-> r.sConnected,
        ended |-> r.ended, released |-> r.released, removed |-> o, rel |-> r.rel]

\* `if (sessionId) sshManager.closeSession(sessionId)` as the handlers write
\* it: every outcome the provider's end() and dispose() allow.
closeIfBound(who) ==
  IF sessionId # NullId
  THEN {closeSession(sessionId, who, e, d) : e \in BOOLEAN, d \in BOOLEAN}
  ELSE {NoClose}

\* The record of one turn: the handler, the handler instance or channel it
\* ran for (for command/resize: the channel written to or resized), the exit
\* code of a close event, the responses written, the Session object
\* closeSession removed and how far its release work got, and whether the
\* handler's own provider call (connect, requestShell, write, setWindow) or
\* lookup threw, with the provider's message when connect or requestShell
\* rejected ("" otherwise).
Ev(kind, n, code, sent, removed, rel, threw) ==
  [kind |-> kind, n |-> n, code |-> code, sent |-> sent, removed |-> removed,
   rel |-> rel, threw |-> threw, msg |-> ""]

ApplyClose(c) ==
  /\ sessions'   = c.sessions
  /\ sConnected' = c.sConnected
  /\ ended'      = c.ended
  /\ released'   = c.released

Init ==
  /\ build \in Builds
  /\ wsState = "open"
  /\ sessionId = NullId
  /\ sessions = [i \in Ids |-> 0]
  /\ nAttempts = 0
  /\ pc = [a \in Attempts |-> "idle"]
  /\ sidOf = [a \in Attempts |-> NullId]
  /\ tgt = [a \in Attempts |-> 0]
  /\ sShell = [o \in Attempts |-> 0]
  /\ sConnected = [o \in Attempts |-> FALSE]
  /\ released = [o \in Attempts |-> "no"]
  /\ chState = [c \in Attempts |-> "none"]
  /\ ended = [c \in Attempts |-> 0]
  /\ last = Ev("init", 0, NullCode, <<>>, 0, "none", FALSE)

connVars  == <<nAttempts, pc, sidOf, tgt>>
closeVars == <<sessions, sConnected, ended, released>>

\* case 'connect' up to `await ssh.connect(...)`: the identifier is generated
\* and bound before anything is awaited.
MsgConnect ==
  /\ wsState = "open"
  /\ nAttempts < MaxConnects
  /\ LET a == nAttempts + 1 IN
     \E id \in generateSessionId(a) :
       /\ sessionId' = id
       /\ nAttempts' = a
       /\ sidOf' = [sidOf EXCEPT ![a] = id]
       /\ pc' = [pc EXCEPT ![a] = "awaitConnect"]
       /\ last' = Ev("connect", a, NullCode, <<>>, 0, "none", FALSE)
  /\ UNCHANGED <<build, wsState, tgt, sShell, chState>>
  /\ UNCHANGED closeVars

\* Frames answered with an error and nothing else: connect without config,
\* unknown message type, unparsable frame.
MsgRejected ==
  /\ wsState = "open"
  /\ \E why \in {"error:SSH configuration required", "error:Unknown message type",
                 "error:Invalid message format"} :
       last' = Ev("rejected", 0, NullCode, sendResponse(why), 0, "none", FALSE)
  /\ UNCHANGED <<build, wsState, sessionId, sShell, chState>>
  /\ UNCHANGED connVars
  /\ UNCHANGED closeVars

\* SSHManager.createShell up to `await requestShell`: the Session object the
\* shell is requested on, 0 when the lookup throws ('Session not found or not
\* connected').  reg and conn are the registry and the isConnected flags at
\* the time of the call.
createShell(id, reg, conn) ==
  LET s == IF id = NullId THEN 0 ELSE reg[id] IN
  IF s = 0 \/ ~conn[s] THEN 0 ELSE s

\* createSession rethrowing the provider's message as it is, without a prefix.
createSessionErrorBare(m) == m

\* createSession's catch: `SSH connection failed: ${error.message}`.
createSessionError(m) == "SSH connection failed: " \o m

\* createShell's catch: `Failed to create shell: ${error.message}`.
createShellError(m) == "Failed to create shell: " \o m

\* The 'error' response the catch of case 'connect' sends for a thrown Error.
errorResponse(text) == "error:" \o text

\* createSession after `await ssh.connect`: on failure the handler's catch
\* answers with an error; on success sessions.set(id, session) with the id the
\* call was given, then the handler calls createShell with the closure's
\* current sessionId.
ConnectResolved(a) ==
  /\ pc[a] = "awaitConnect"
  /\ \E ok \in BOOLEAN :
       IF ~ok
       THEN /\ pc' = [pc EXCEPT ![a] = "done"]
            /\ \E m \in ProviderMsgs :
                 last' = [Ev("connectResolved", a, NullCode,
                             sendResponse(errorResponse(createSessionError(m))),
                             0, "none", TRUE) EXCEPT !.msg = m]
            /\ UNCHANGED <<sessions, sConnected, tgt>>
       ELSE LET sessions1 == [sessions EXCEPT ![sidOf[a]] = a]
                conn1     == [sConnected EXCEPT ![a] = TRUE]
                s         == createShell(sessionId, sessions1, conn1)
            IN
            /\ sessions' = sessions1
            /\ sConnected' = conn1
            /\ IF s = 0
               THEN /\ pc' = [pc EXCEPT ![a] = "done"]
                    /\ last' = Ev("connectResolved", a, NullCode,
                                  sendResponse(errorResponse(
                                    "Session not found or not connected")),
                                  0, "none", TRUE)
                    /\ UNCHANGED tgt
               ELSE /\ pc' = [pc EXCEPT ![a] = "awaitShell"]
                    /\ tgt' = [tgt EXCEPT ![a] = s]
                    /\ last' = Ev("connectResolved", a, NullCode, <<>>, 0, "none", FALSE)
  /\ UNCHANGED <<build, wsState, sessionId, nAttempts, sidOf, sShell, released,
                 chState, ended>>

\* The sessionId field of the 'connected' response: the closure's sessionId
\* in the current bridge, no field in the legacy one.
connectedSessionId == IF build = "current" THEN sessionId ELSE NullId

\* createShell after `await requestShell`: on failure the catch answers with
\* an error; on success session.shell = shell on the Session looked up before
\* the await, the handler registers its listeners and answers 'connected'
\* (carrying the closure's sessionId in the current bridge, nothing in the
\* legacy one).
ShellResolved(a) ==
  /\ pc[a] = "awaitShell"
  /\ \E ok \in BOOLEAN :
       IF ~ok
       THEN /\ \E m \in ProviderMsgs :
                 last' = [Ev("shellResolved", a, NullCode,
                             sendResponse(errorResponse(createShellError(m))),
                             0, "none", TRUE) EXCEPT !.msg = m]
            /\ UNCHANGED <<sShell, chState>>
       ELSE /\ sShell' = [sShell EXCEPT ![tgt[a]] = a]
            /\ chState' = [chState EXCEPT ![a] = "open"]
            /\ last' = Ev("shellResolved", a, NullCode, sendResponse("connected"), 0,
                          "none", FALSE)
  /\ pc' = [pc EXCEPT ![a] = "done"]
  /\ UNCHANGED <<build, wsState, sessionId, nAttempts, sidOf, tgt>>
  /\ UNCHANGED closeVars

\* case 'command' without the `if (!sessionId)` guard.
commandTurnNoGuard(hasCommand, writeThrows) ==
  LET s == getSession(sessionId) IN
  IF ~hasCommand
  THEN Ev("command", 0, NullCode, sendResponse("error:Command required"), 0, "none", FALSE)
  ELSE IF s = 0 \/ sShell[s] = 0
  THEN Ev("command", 0, NullCode, sendResponse("error:Shell not available"), 0, "none", FALSE)
  ELSE Ev("command", sShell[s], NullCode,
          IF writeThrows THEN sendResponse("error:write failed") ELSE <<>>,
          0, "none", writeThrows)

\* case 'command': the turn a command message takes in the current state.
commandTurn(hasCommand, writeThrows) ==
  LET s == getSession(sessionId) IN
  IF sessionId = NullId
  THEN Ev("command", 0, NullCode, sendResponse("error:No active session"), 0, "none", FALSE)
  ELSE IF ~hasCommand
  THEN Ev("command", 0, NullCode, sendResponse("error:Command required"), 0, "none", FALSE)
  ELSE IF s = 0 \/ sShell[s] = 0
  THEN Ev("command", 0, NullCode, sendResponse("error:Shell not available"), 0, "none", FALSE)
  ELSE Ev("command", sShell[s], NullCode,
          IF writeThrows THEN sendResponse("error:write failed") ELSE <<>>,
          0, "none", writeThrows)

MsgCommand ==
  /\ wsState = "open"
  /\ \E hasCommand \in BOOLEAN, writeThrows \in BOOLEAN :
       last' = commandTurn(hasCommand, writeThrows)
  /\ UNCHANGED <<build, wsState, sessionId, sShell, chState>>
  /\ UNCHANGED connVars
  /\ UNCHANGED closeVars

\* SSHManager.resizeShell: throws when the Session or its shell is missing,
\* swallows a failing setWindow.
resizeShell(id, setWindowThrows) ==
  LET s == getSession(id) IN
  IF s = 0 \/ sShell[s] = 0 THEN [threw |-> TRUE, resized |-> 0]
  ELSE [threw |-> FALSE, resized |-> IF setWindowThrows THEN 0 ELSE sShell[s]]

\* case 'resize' with a catch that reports to the client like the other cases.
resizeTurnReportsFailure(setWindowThrows) ==
  IF sessionId = NullId
  THEN Ev("resize", 0, NullCode, sendResponse("error:No active session"), 0, "none", FALSE)
  ELSE LET r == resizeShell(sessionId, setWindowThrows) IN
       Ev("resize", r.resized, NullCode,
          IF r.threw THEN sendResponse("error:Session or shell not found") ELSE <<>>,
          0, "none", r.threw)

\* case 'resize': whatever resizeShell throws is logged only.
resizeTurn(setWindowThrows) ==
  IF sessionId = NullId
  THEN Ev("resize", 0, NullCode, sendResponse("error:No active session"), 0, "none", FALSE)
  ELSE LET r == resizeShell(sessionId, setWindowThrows) IN
       Ev("resize", r.resized, NullCode, <<>>, 0, "none", r.threw)

MsgResize ==
  /\ wsState = "open"
  /\ \E setWindowThrows \in BOOLEAN : last' = resizeTurn(setWindowThrows)
  /\ UNCHANGED <<build, wsState, sessionId, sShell, chState>>
  /\ UNCHANGED connVars
  /\ UNCHANGED closeVars

\* case 'disconnect'
MsgDisconnect ==
  /\ wsState = "open"
  /\ \E c \in closeIfBound("disconnect") :
       /\ ApplyClose(c)
       /\ last' = Ev("disconnect", 0, NullCode, sendResponse("disconnected"),
                     c.removed, c.rel, FALSE)
  /\ sessionId' = NullId
  /\ UNCHANGED <<build, wsState, sShell, chState>>
  /\ UNCHANGED connVars

\* shell.on('data')
ShellData(ch) ==
  /\ chState[ch] = "open"
  /\ last' = Ev("shellData", ch, NullCode, sendResponse("data"), 0, "none", FALSE)
  /\ UNCHANGED <<build, wsState, sessionId, sShell, chState>>
  /\ UNCHANGED connVars
  /\ UNCHANGED closeVars

\* Whether the close handler of the bridge treats exit code `code` as a reason
\* to notify and remove: non-zero and non-null in the current bridge, always
\* in the legacy one.
closeIsAbnormal(code) ==
  IF build = "current" THEN code # 0 /\ code # NullCode ELSE TRUE

\* shell.on('close')
ShellClose(ch) ==
  /\ chState[ch] = "open"
  /\ \E code \in ExitCodes :
       \E c \in IF closeIsAbnormal(code) THEN closeIfBound("event") ELSE {NoClose} :
         /\ ApplyClose(c)
         /\ last' = Ev("shellClose", ch, code,
                       IF closeIsAbnormal(code) THEN sendResponse("disconnected") ELSE <<>>,
                       c.removed, c.rel, FALSE)
  /\ chState' = [chState EXCEPT ![ch] = "closed"]
  /\ UNCHANGED <<build, wsState, sessionId, sShell>>
  /\ UNCHANGED connVars

\* Whether the error handler of the bridge removes the bound Session.
errorClosesSession == build = "current"

\* shell.on('error')
ShellError(ch) ==
  /\ chState[ch] = "open"
  /\ \E c \in IF errorClosesSession THEN closeIfBound("event") ELSE {NoClose} :
       /\ ApplyClose(c)
       /\ last' = Ev("shellError", ch, NullCode, sendResponse("error:channel"),
                     c.removed, c.rel, FALSE)
  /\ UNCHANGED <<build, wsState, sessionId, sShell, chState>>
  /\ UNCHANGED connVars

\* ws.on('error'): the socket is no longer OPEN when the event is emitted.
WsError ==
  /\ wsState = "open"
  /\ \E c \in closeIfBound("event") :
       /\ ApplyClose(c)
       /\ last' = Ev("wsError", 0, NullCode, <<>>, c.removed, c.rel, FALSE)
  /\ wsState' = "errored"
  /\ UNCHANGED <<build, sessionId, sShell, chState>>
  /\ UNCHANGED connVars

\* ws.on('close')
WsClose ==
  /\ wsState \in {"open", "errored"}
  /\ \E c \in closeIfBound("event") :
       /\ ApplyClose(c)
       /\ last' = Ev("wsClose", 0, NullCode, <<>>, c.removed, c.rel, FALSE)
  /\ wsState' = "closed"
  /\ UNCHANGED <<build, sessionId, sShell, chState>>
  /\ UNCHANGED connVars

Next ==
  \/ MsgConnect
  \/ MsgRejected
  \/ \E a \in Attempts : ConnectResolved(a)
  \/ \E a \in Attempts : ShellResolved(a)
  \/ MsgCommand
  \/ MsgResize
  \/ MsgDisconnect
  \/ \E ch \in Attempts : ShellData(ch)
  \/ \E ch \in Attempts : ShellClose(ch)
  \/ \E ch \in Attempts : ShellError(ch)
  \/ WsError
  \/ WsClose

Spec == Init /\ [][Next]_vars

TypeOK ==
  /\ build \in Builds
  /\ wsState \in {"open", "errored", "closed"}
  /\ sessionId \in Ids \cup {NullId}
  /\ sessions \in [Ids -> Attempts \cup {0}]
  /\ nAttempts \in 0..MaxConnects
  /\ \A a \in Attempts : pc[a] \in {"idle", "awaitConnect", "awaitShell", "done"}

(***************************************************************************)
(* The claims.                                                             *)
(***************************************************************************)

Registry == {id \in Ids : sessions[id] # 0}

\* A connect handler has just finished with a failure.
ConnectJustFailed == last.kind \in {"connectResolved", "shellResolved"} /\ last.threw

\* The Session that owns channel ch (the one whose transport opened it).
Owner(ch) == tgt[ch]

\* C1: when a connect whose provider steps both succeeded emits 'connected',
\* the response carries a non-null identifier and the registry holds a
\* Session under that identifier, connected and with a shell attached.
\* Stated for the current bridge and for a shell opened on a transport that
\* was not disposed in the meantime.
C1_ConnectedNamesLiveSession ==
  (/\ build = "current"
   /\ last.kind = "shellResolved"
   /\ last.sent = <<"connected">>
   /\ released[Owner(last.n)] = "no")
  => /\ connectedSessionId # NullId
     /\ sessions[connectedSessionId] # 0
     /\ sConnected[sessions[connectedSessionId]]
     /\ sShell[sessions[connectedSessionId]] # 0

\* C2: when a connect attempt fails at the shell open, the handler answers
\* with one error (transport open) and the Session the attempt created is not
\* in the registry once the handler has finished.
C2_FailedConnectLeavesNoSession ==
  (last.kind = "shellResolved" /\ last.threw)
  => /\ wsState = "open" => Len(last.sent) = 1
     /\ ~InRegistry(last.n)

\* C3: after a failed connect attempt (nothing else in flight) no identifier
\* is bound: a command or resize arriving now is answered 'No active session'
\* and a disconnect arriving now finds no Session to remove.
C3_FailedConnectUnbinds ==
  (ConnectJustFailed /\ InFlight = {} /\ wsState = "open")
  => /\ sessionId = NullId
     /\ commandTurn(TRUE, FALSE).sent = <<"error:No active session">>
     /\ resizeTurn(FALSE).sent = <<"error:No active session">>
     /\ getSession(sessionId) = 0

\* C4: the release work of closeSession (shell.end(), connection.dispose())
\* is done at most once for every Session, and end() is called at most once
\* on every channel, whichever triggers fire and in whatever order.
C4_ReleaseAtMostOnce ==
  /\ \A o \in Attempts : released[o] # "again"
  /\ \A ch \in Attempts : ended[ch] <= 1

\* C4 witness: the transport closes while the bound identifier is that of a
\* Session a channel event or disconnect already released; closeSession is
\* called again and removes nothing.
C4_Witness ==
  /\ last.kind \in {"wsClose", "wsError", "shellError"}
  /\ build = "current"
  /\ sessionId # NullId
  /\ last.removed = 0
  /\ \E o \in Attempts : sidOf[o] = sessionId /\ released[o] # "no" /\ ended[o] = 1

\* C5: once a disconnect message has answered 'disconnected' for a Session,
\* the close event of that Session's shell sends no further 'disconnected'
\* while the transport is open.
C5_NoSecondDisconnected ==
  (/\ build = "current"
   /\ last.kind = "shellClose"
   /\ released[Owner(last.n)] = "disconnect")
  => last.sent = <<>>

\* C6: once closeSession has released a Session, no 'data' response is sent
\* for that Session's shell.
C6_NoDataAfterTeardown ==
  (last.kind = "shellData" /\ released[Owner(last.n)] # "no")
  => last.sent = <<>>

\* C7: a close event with exit code zero or null sends no 'disconnected'.
C7_CleanCloseIsSilent ==
  (last.kind = "shellClose" /\ last.code \in {0, NullCode})
  => last.sent = <<>>

\* C8: when the connection is Active (identifier bound to a registered
\* Session with a shell, no connect in flight) and a shell channel closes with
\* a non-zero code, 'disconnected' is sent (transport open) and the Session
\* that owns the channel is no longer in the registry.
C8_AbnormalCloseRemovesOwner ==
  (/\ last.kind = "shellClose"
   /\ last.code = 1
   /\ last.removed # 0
   /\ sShell[last.removed] # 0
   /\ InFlight = {})
  => /\ wsState = "open" => last.sent = <<"disconnected">>
     /\ ~InRegistry(Owner(last.n))

\* C9: the registry never holds more than one Session created by the
\* connection.
C9_AtMostOneSession == Cardinality(Registry) <= 1

\* Nothing can happen any more: the transport is closed, no connect handler
\* is waiting for the provider and no channel can deliver an event.
Terminal ==
  /\ wsState = "closed"
  /\ InFlight = {}
  /\ \A ch \in Attempts : chState[ch] # "open"

\* C10: no response is written once the transport is no longer open, and
\* when the transport has closed and everything has run to its end the
\* registry holds no Session of the connection.
C10_CloseEmptiesRegistry ==
  /\ wsState # "open" => last.sent = <<>>
  /\ Terminal => Registry = {}

\* C11: a disconnect message clears the bound identifier and answers with
\* one 'disconnected'; and, a single connect having been sent, whenever no
\* identifier is bound (only a disconnect unbinds) and no handler is in
\* flight, the registry holds no Session of the connection.
C11_DisconnectLeavesNoSession ==
  /\ last.kind = "disconnect" => sessionId = NullId /\ last.sent = <<"disconnected">>
  /\ (nAttempts = 1 /\ sessionId = NullId /\ InFlight = {}) => Registry = {}

\* C12: when an open channel reports an error, one 'error' response with the
\* channel's message is sent (transport open) and the Session that owns the
\* channel is released and absent from the registry afterwards.
C12_ChannelErrorRemovesOwner ==
  last.kind = "shellError"
  => /\ wsState = "open" => last.sent = <<"error:channel">>
     /\ ~InRegistry(Owner(last.n))
     /\ released[Owner(last.n)] # "no"

\* C13: a closeSession that found its identifier in the registry leaves the
\* identifier's Session out of the registry, and the caller goes on as if
\* nothing was thrown (the disconnect handler unbinds and answers), also when
\* end() or dispose() threw.
C13_CloseAlwaysRemoves ==
  last.removed # 0
  => /\ ~InRegistry(last.removed)
     /\ last.kind = "disconnect" => sessionId = NullId /\ last.sent = <<"disconnected">>

\* C13 witness: a disconnect whose closeSession had end() throw.
C13_Witness ==
  /\ last.kind = "disconnect"
  /\ last.removed # 0
  /\ last.rel = "endThrew"

\* C14: a command or resize handled while no identifier is bound sends the
\* one response 'No active session', touches no channel and changes neither
\* the bound identifier nor the registry.
C14_UnboundCommandRejected ==
  [][(sessionId = NullId /\ last'.kind \in {"command", "resize"})
     => /\ last'.sent = <<"error:No active session">>
        /\ last'.n = 0
        /\ sessionId' = sessionId
        /\ sessions' = sessions
        /\ sShell' = sShell /\ ended' = ended]_vars

\* C14 witness: a command was just rejected for want of a bound identifier
\* after a session had been opened and disconnected.
C14_Witness ==
  /\ last.kind = "command"
  /\ sessionId = NullId
  /\ last.sent = <<"error:No active session">>
  /\ nAttempts > 0

\* C15 as claimed: when the provider's connect fails with message m, the error
\* response carries exactly m.
C15_ErrorIsProviderMessage ==
  (last.kind = "connectResolved" /\ last.msg # "" /\ wsState = "open")
  => last.sent = <<errorResponse(last.msg)>>

\* C15 amended: the error response carries 'SSH connection failed: ' followed
\* by m, and the attempt leaves the registry as it was.
C15_ErrorIsPrefixedMessage ==
  [][(last'.kind = "connectResolved" /\ last'.msg # "")
     => /\ wsState = "open"
           => last'.sent = <<errorResponse("SSH connection failed: " \o last'.msg)>>
        /\ sessions' = sessions]_vars

\* C15 witness: a connect the provider rejected with 'bad credentials' was
\* answered on an open transport.
C15_Witness ==
  /\ last.kind = "connectResolved"
  /\ last.msg = "bad credentials"
  /\ Len(last.sent) = 1

\* C16: a resize handled while an identifier is bound sends nothing and
\* changes neither the bound identifier nor the registry, whether the resize
\* succeeds, setWindow fails or the Session or its shell is missing.
C16_ResizeIsSilent ==
  [][(sessionId # NullId /\ last'.kind = "resize")
     => /\ last'.sent = <<>>
        /\ sessionId' = sessionId
        /\ sessions' = sessions]_vars

\* C16 witness: a resize for a bound identifier whose Session is gone.
C16_Witness ==
  /\ last.kind = "resize"
  /\ sessionId # NullId
  /\ getSession(sessionId) = 0
  /\ last.threw

\* C17: a client message is never handled while the handler of an earlier
\* message of the connection is still waiting for the provider.
C17_MessagesOneAtATime ==
  last.kind \in {"connect", "rejected", "command", "resize", "disconnect"}
  => InFlight \ (IF last.kind = "connect" THEN {last.n} ELSE {}) = {}

\* C18: createSession under an identifier the registry already holds leaves
\* the registry as it is.
C18_NoReplaceOnDuplicate ==
  [][\A a \in Attempts :
       (pc[a] = "awaitConnect" /\ pc'[a] # "awaitConnect" /\ sessions[sidOf[a]] # 0)
       => sessions' = sessions]_vars

\* C19: whenever closeSession removes a Session, dispose() of its transport
\* was called.
C19_RemovedMeansDisposed ==
  last.removed # 0 => last.rel # "endThrew"

\* C20: after a channel's close event, whatever the code, its Session is not
\* in the registry, and no command is written to a closed channel.
C20_CloseTearsDown ==
  /\ last.kind = "shellClose" => ~InRegistry(Owner(last.n))
  /\ (last.kind = "command" /\ last.n # 0) => chState[last.n] # "closed"

\* C21: a channel error event or an abnormal close event that makes
\* closeSession remove a Session removes the Session that owns the channel,
\* never another one (stated for the current bridge and for identifiers the
\* generator did not repeat).
C21_EventRemovesOnlyOwner ==
  (/\ build = "current"
   /\ \A a, b \in 1..nAttempts : a # b => sidOf[a] # sidOf[b]
   /\ last.kind \in {"shellError", "shellClose"}
   /\ last.removed # 0)
  => last.removed = Owner(last.n)

\* C22: a shell channel the provider returns is attached, and 'connected'
\* answered, only while its Session is in the registry; and an open channel
\* attached by the handler turn just taken belongs to a registered Session.
C22_ShellAttachedToRegistered ==
  (last.kind = "shellResolved" /\ ~last.threw)
  => /\ InRegistry(Owner(last.n))
     /\ sConnected[Owner(last.n)]

====
